---- MODULE Spec2Model ----
(***************************************************************************)
(* Model of ml_insights: SplineCalibratedClassifierCV (calibration.py) and *)
(* the calibration fitter and spline basis builder (calibration_utils.py). *)
(*                                                                         *)
(* Spec       the calibrated classifier: __init__, fit (fold loop, full    *)
(*            model, calibration function), predict_proba, predict.        *)
(* SpecKnots  knot selection of prob_calibration_function.                 *)
(* SpecBasis  _natural_cubic_spline_basis_expansion.                       *)
(* SpecCalib  calibrate_scores, ridge branch with force_prob.              *)
(***************************************************************************)
EXTENDS Integers, Sequences, FiniteSets, TLC

VARIABLES
    \* ---- SplineCalibratedClassifierCV and the objects it references ----
    caps,                     \* capabilities of the base estimator's class
    method,                   \* self.method
    cv,                       \* self.cv: 0 stands for 'prefit', else n_splits
    est,                      \* heap of live estimator objects: id -> state
    nextId,                   \* next fresh object id
    uncalibrated_classifier,  \* self.uncalibrated_classifier (id, None = 0)
    calib_func,               \* self.calib_func (NoFunc = None)
    pc,                       \* position inside fit: idle, folds, full, calib
    skf,                      \* test folds generated for the running fit
    idx,                      \* 0-based index of the next fold
    y_pred,                   \* per sample: writes so far and who scored it
    fitCalls,                 \* number of fit calls started
    fitReturns,               \* number of fit calls that returned normally
    foldsTrained,             \* clones trained so far in the running fit
    saved,                    \* (classifier, calib_func) when fit was entered
    lastOp, lastResult,       \* last call and how it ended ("running": inside fit)
    lastP, lastLabel,         \* last predict: calibrated p and returned class
    \* ---- prob_calibration_function: knot selection ----
    kScores, kSample, kMaxKnots, kKnots, kDone,
    \* ---- _natural_cubic_spline_basis_expansion ----
    bKnots, bX, bOut, bDone,
    \* ---- calibrate_scores ----
    cMethod, cForce, cEps, cRaw, cOut, cDone

clfVars == <<caps, method, cv, est, nextId, uncalibrated_classifier, calib_func,
             pc, skf, idx, y_pred, fitCalls, fitReturns, foldsTrained, saved,
             lastOp, lastResult, lastP, lastLabel>>
knotVars == <<kScores, kSample, kMaxKnots, kKnots, kDone>>
basisVars == <<bKnots, bX, bOut, bDone>>
calibVars == <<cMethod, cForce, cEps, cRaw, cOut, cDone>>
vars == <<clfVars, knotVars, basisVars, calibVars>>
utilVars == <<knotVars, basisVars, calibVars>>

(***************************************************************************)
(* Bounds                                                                  *)
(***************************************************************************)
NumSamples == 3
MaxFolds == 3
MaxFits == 2
MaxRetrains == 1
Scale == 4

Samples == 1..NumSamples

(***************************************************************************)
(* The calibrated classifier                                               *)
(***************************************************************************)
None == 0
base_estimator == 1
Prefit == 0
RequiredCaps == {"fit", "predict_proba", "clone"}
Methods == {"logistic", "ridge", "isotonic"}
NoFunc == [call |-> 0, method |-> "none"]
NoScore == [id |-> None, fitted |-> FALSE, train |-> {}]
Zeros == [i \in Samples |-> [written |-> 0, by |-> NoScore]]

\* sklearn.base.clone: an untrained copy of the same configuration
Clone(e) == [fitted |-> FALSE, train |-> {}, version |-> 0, retrains |-> 0]

\* estimator.fit(X[train], y[train]) during fit call number c
Train(e, train, c) == [e EXCEPT !.fitted = TRUE, !.train = train, !.version = c]

\* the test folds StratifiedKFold(n_splits=k).split yields: every sample is
\* assigned to one of k folds, none of them empty
Partitions(k) ==
    { [a \in 1..k |-> { i \in Samples : f[i] = a }] :
        f \in { g \in [Samples -> 1..k] : \A a \in 1..k : \E i \in Samples : g[i] = a } }

TestIdx == skf[idx + 1]
TrainIdx == Samples \ TestIdx

\* variant: the fold is scored by the estimator that was passed in
FoldScorerBase(this_estimator) == base_estimator

\* the estimator whose predict_proba fills y_pred[test_idx]
FoldScorer(this_estimator) == this_estimator

\* variant: the full model is the caller's estimator, not a clone of it
FullModelIsBase(fresh) == base_estimator

\* the object bound to self.uncalibrated_classifier before the full fit
FullModelObject(fresh) == fresh

\* the object self.uncalibrated_classifier is bound to in 'prefit' mode
PrefitObject == base_estimator

ClfInit ==
    /\ caps \in SUBSET RequiredCaps
    /\ method \in Methods
    /\ cv \in {Prefit} \cup (2..MaxFolds)
    /\ est = [o \in {base_estimator} |->
                [fitted |-> (cv = Prefit), train |-> {}, version |-> 0,
                 retrains |-> 0]]
    /\ nextId = base_estimator + 1
    /\ uncalibrated_classifier = None
    /\ calib_func = NoFunc
    /\ pc = "idle"
    /\ skf = <<>>
    /\ idx = 0
    /\ y_pred = Zeros
    /\ fitCalls = 0
    /\ fitReturns = 0
    /\ foldsTrained = 0
    /\ saved = <<None, NoFunc>>
    /\ lastOp = "none"
    /\ lastResult = "none"
    /\ lastP = 0
    /\ lastLabel = "none"

\* objects still referenced once fit is left: base_estimator and the classifier
Live(e, keep) == [o \in (DOMAIN e) \cap keep |-> e[o]]

\* fit is left (return or exception): its locals are dropped
LeaveFit(result, e, uc) ==
    /\ pc' = "idle"
    /\ lastOp' = "fit"
    /\ lastResult' = result
    /\ fitReturns' = IF result = "ok" THEN fitReturns + 1 ELSE fitReturns
    /\ est' = Live(e, {base_estimator, uc})
    /\ uncalibrated_classifier' = uc
    /\ skf' = <<>>
    /\ idx' = 0
    /\ y_pred' = Zeros

\* fit, lines 95-104: the prefit branch, or the start of the fold loop
FitBegin ==
    /\ pc = "idle"
    /\ fitCalls < MaxFits
    /\ UNCHANGED utilVars
    /\ fitCalls' = fitCalls + 1
    /\ saved' = <<uncalibrated_classifier, calib_func>>
    /\ foldsTrained' = 0
    /\ lastP' = 0
    /\ lastLabel' = "none"
    /\ UNCHANGED <<caps, method, cv, nextId, calib_func>>
    /\ IF cv = Prefit
       THEN IF "predict_proba" \notin caps
            THEN LeaveFit("AttributeError", est, PrefitObject)
            ELSE IF ~est[PrefitObject].fitted
            THEN LeaveFit("CollaboratorError", est, PrefitObject)
            ELSE /\ uncalibrated_classifier' = PrefitObject
                 /\ y_pred' = [i \in Samples |->
                       [written |-> 1,
                        by |-> [id |-> PrefitObject,
                                fitted |-> est[PrefitObject].fitted,
                                train |-> est[PrefitObject].train]]]
                 /\ pc' = "calib"
                 /\ lastOp' = "fit"
                 /\ lastResult' = "running"
                 /\ UNCHANGED <<est, skf, idx, fitReturns>>
       ELSE IF cv > NumSamples
            THEN LeaveFit("ValueError", est, uncalibrated_classifier)
            ELSE /\ \E s \in Partitions(cv) : skf' = s
                 /\ idx' = 0
                 /\ y_pred' = Zeros
                 /\ pc' = "folds"
                 /\ lastOp' = "fit"
                 /\ lastResult' = "running"
                 /\ UNCHANGED <<est, uncalibrated_classifier, fitReturns>>

\* fit, lines 105-113: one iteration of the fold loop
FitFold ==
    /\ pc = "folds"
    /\ UNCHANGED utilVars
    /\ idx < Len(skf)
    /\ UNCHANGED <<caps, method, cv, calib_func, fitCalls, saved, lastP, lastLabel>>
    /\ nextId' = nextId + 1
    /\ LET this_estimator == nextId
           heap == [o \in DOMAIN est \cup {this_estimator} |->
                      IF o = this_estimator
                      THEN Train(Clone(est[base_estimator]), TrainIdx, fitCalls)
                      ELSE est[o]]
           scorer == FoldScorer(this_estimator)
       IN IF "clone" \notin caps
          THEN /\ LeaveFit("TypeError", est, uncalibrated_classifier)
               /\ UNCHANGED foldsTrained
          ELSE IF "fit" \notin caps
          THEN /\ LeaveFit("AttributeError", est, uncalibrated_classifier)
               /\ UNCHANGED foldsTrained
          ELSE \E trainOk \in BOOLEAN :
               IF ~trainOk
               THEN /\ LeaveFit("ValueError", est, uncalibrated_classifier)
                    /\ UNCHANGED foldsTrained
               ELSE /\ foldsTrained' = foldsTrained + 1
                    /\ IF "predict_proba" \notin caps
                       THEN LeaveFit("AttributeError", est, uncalibrated_classifier)
                       ELSE IF ~heap[scorer].fitted
                       THEN LeaveFit("CollaboratorError", est, uncalibrated_classifier)
                       ELSE /\ y_pred' = [i \in Samples |->
                                  IF i \in TestIdx
                                  THEN [written |-> y_pred[i].written + 1,
                                        by |-> [id |-> scorer,
                                                fitted |-> heap[scorer].fitted,
                                                train |-> heap[scorer].train]]
                                  ELSE y_pred[i]]
                            /\ idx' = idx + 1
                            /\ pc' = IF idx + 1 = Len(skf) THEN "full" ELSE "folds"
                            /\ UNCHANGED <<est, uncalibrated_classifier, skf,
                                           fitReturns, lastOp, lastResult>>

\* fit, lines 115-117: clone and train the full-data classifier
FitFull ==
    /\ pc = "full"
    /\ UNCHANGED utilVars
    /\ UNCHANGED <<caps, method, cv, calib_func, fitCalls, saved, foldsTrained,
                   lastP, lastLabel>>
    /\ nextId' = nextId + 1
    /\ IF "clone" \notin caps
       THEN LeaveFit("TypeError", est, uncalibrated_classifier)
       ELSE LET uc == FullModelObject(nextId)
                heap == [o \in DOMAIN est \cup {nextId} |->
                           IF o = nextId THEN Clone(est[base_estimator]) ELSE est[o]]
            IN IF "fit" \notin caps
               THEN LeaveFit("AttributeError", heap, uc)
               ELSE \E trainOk \in BOOLEAN :
                    IF ~trainOk
                    THEN LeaveFit("ValueError", heap, uc)
                    ELSE /\ uncalibrated_classifier' = uc
                         /\ est' = [heap EXCEPT ![uc] = Train(heap[uc], Samples, fitCalls)]
                         /\ pc' = "calib"
                         /\ UNCHANGED <<skf, idx, y_pred, fitReturns, lastOp, lastResult>>

\* the value fit stores in self.calib_func when the fitter returns
NewCalibFunc == [call |-> fitCalls, method |-> method]

\* fit, lines 119-127: the calibration function, then return self
FitCalibrate ==
    /\ pc = "calib"
    /\ UNCHANGED utilVars
    /\ UNCHANGED <<caps, method, cv, nextId, fitCalls, saved, foldsTrained,
                   lastP, lastLabel>>
    /\ IF method \in {"logistic", "ridge"}
       THEN \E fitterOk \in BOOLEAN :
            IF fitterOk
            THEN /\ calib_func' = NewCalibFunc
                 /\ LeaveFit("ok", est, uncalibrated_classifier)
            ELSE /\ UNCHANGED calib_func
                 /\ LeaveFit("ValueError", est, uncalibrated_classifier)
       ELSE /\ UNCHANGED calib_func
            /\ LeaveFit("ok", est, uncalibrated_classifier)

\* calibrated probabilities in units of 1/Scale; ridge may leave [0, 1]
PValues == (0 - 1)..(Scale + 1)

\* variant: a tie goes to the last index
ArgMaxLast(col_0, col_1) == IF col_1 >= col_0 THEN 1 ELSE 0

\* np.argmax over the row [col_0, col_1]: the first index of the maximum
ArgMax(col_0, col_1) == IF col_1 > col_0 THEN 1 ELSE 0

\* uncalibrated_classifier.classes_, 0-indexed
Classes(k) == IF k = 0 THEN "negative" ELSE "positive"

\* what predict_proba raises, "ok" when it returns (line 146)
PredictProbaOutcome ==
    IF uncalibrated_classifier = None THEN "AttributeError"
    ELSE IF "predict_proba" \notin caps THEN "AttributeError"
    ELSE IF ~est[uncalibrated_classifier].fitted THEN "CollaboratorError"
    ELSE IF calib_func = NoFunc THEN "TypeError"
    ELSE "ok"

\* what predict raises, "ok" when it returns (line 166)
PredictOutcome ==
    IF uncalibrated_classifier = None THEN "AttributeError"
    ELSE IF ~est[uncalibrated_classifier].fitted THEN "AttributeError"
    ELSE PredictProbaOutcome

\* predict_proba, lines 129-148
PredictProba ==
    /\ pc = "idle"
    /\ UNCHANGED utilVars
    /\ lastOp' = "predict_proba"
    /\ lastResult' = PredictProbaOutcome
    /\ lastLabel' = "none"
    /\ IF PredictProbaOutcome = "ok"
       THEN \E p \in PValues : lastP' = p
       ELSE lastP' = 0
    /\ UNCHANGED <<caps, method, cv, est, nextId, uncalibrated_classifier,
                   calib_func, pc, skf, idx, y_pred, fitCalls, fitReturns,
                   foldsTrained, saved>>

\* predict, lines 151-166
Predict ==
    /\ pc = "idle"
    /\ UNCHANGED utilVars
    /\ lastOp' = "predict"
    /\ lastResult' = PredictOutcome
    /\ IF PredictOutcome = "ok"
       THEN \E p \in PValues :
              /\ lastP' = p
              /\ lastLabel' = Classes(ArgMax(Scale - p, p))
       ELSE /\ lastP' = 0
            /\ lastLabel' = "none"
    /\ UNCHANGED <<caps, method, cv, est, nextId, uncalibrated_classifier,
                   calib_func, pc, skf, idx, y_pred, fitCalls, fitReturns,
                   foldsTrained, saved>>

\* the caller trains the estimator it passed as base_estimator once more
CallerRefitBase ==
    /\ pc = "idle"
    /\ UNCHANGED utilVars
    /\ "fit" \in caps
    /\ est[base_estimator].retrains < MaxRetrains
    /\ est' = [est EXCEPT ![base_estimator] =
                 [@ EXCEPT !.fitted = TRUE, !.train = Samples,
                           !.retrains = @ + 1]]
    /\ UNCHANGED <<caps, method, cv, nextId, uncalibrated_classifier,
                   calib_func, pc, skf, idx, y_pred, fitCalls, fitReturns,
                   foldsTrained, saved, lastOp, lastResult, lastP, lastLabel>>

Next ==
    \/ FitBegin
    \/ FitFold
    \/ FitFull
    \/ FitCalibrate
    \/ PredictProba
    \/ Predict
    \/ CallerRefitBase

(***************************************************************************)
(* prob_calibration_function: knot selection (lines 49-60)                 *)
(***************************************************************************)
ScoreLen == 4
MaxScore == 4
MaxKnotsArg == 4

ScoreValues == 0..MaxScore

Min(S) == CHOOSE m \in S : \A o \in S : m <= o
Max(S) == CHOOSE m \in S : \A o \in S : o <= m

RECURSIVE SortSet(_)
\* the elements of a finite set of numbers in increasing order
SortSet(S) == IF S = {} THEN <<>> ELSE <<Min(S)>> \o SortSet(S \ {Min(S)})

\* np.unique: the sorted distinct values of a vector
Unique(v) == SortSet({ v[i] : i \in DOMAIN v })

RECURSIVE InsertSorted(_, _)
InsertSorted(x, s) ==
    IF s = <<>> THEN <<x>>
    ELSE IF x <= Head(s) THEN <<x>> \o s
    ELSE <<Head(s)>> \o InsertSorted(x, Tail(s))

RECURSIVE Sort(_)
\* np.sort: the same values, duplicates kept, in non-decreasing order
Sort(v) == IF v = <<>> THEN <<>> ELSE InsertSorted(Head(v), Sort(Tail(v)))

\* Python's v[:stop]; a negative stop counts from the end
SliceTo(v, stop) ==
    LET e == IF stop < 0 THEN Len(v) + stop ELSE stop
        n == IF e < 0 THEN 0 ELSE IF e > Len(v) THEN Len(v) ELSE e
    IN SubSeq(v, 1, n)

\* Python's v[1:-1]
Interior(v) == IF Len(v) <= 2 THEN <<>> ELSE SubSeq(v, 2, Len(v) - 1)

\* the orders random.shuffle can leave a vector in
Shuffles(v) ==
    { [i \in DOMAIN v |-> v[pi[i]]] :
        pi \in { f \in [DOMAIN v -> DOMAIN v] :
                   \A a, b \in DOMAIN v : a # b => f[a] # f[b] } }

\* variant: the two end knots are not counted against max_knots
ReducedInteriorUncounted(shuffled, max_knots) == SliceTo(shuffled, max_knots)

\* line 57: the interior knots kept after the shuffle
ReducedInterior(shuffled, max_knots) == SliceTo(shuffled, max_knots - 2)

\* line 58: np.insert(reduced_knot_vec, [0, 0], [smallest_knot, biggest_knot])
InsertEnds(reduced, smallest_knot, biggest_knot) ==
    <<smallest_knot, biggest_knot>> \o reduced

\* lines 49-59: the knot vectors the selection can end with
KnotVecs(scorevec, sample, max_knots) ==
    LET knot_vec == Unique(scorevec)
        num_unique == Len(knot_vec)
    IN IF sample /\ num_unique > max_knots
       THEN { Sort(InsertEnds(ReducedInterior(sh, max_knots),
                              knot_vec[1], knot_vec[num_unique])) :
                sh \in Shuffles(Interior(knot_vec)) }
       ELSE { knot_vec }

KnotIdle ==
    /\ kScores = <<>>
    /\ kSample = TRUE
    /\ kMaxKnots = 0
    /\ kKnots = <<>>
    /\ kDone = FALSE

KnotInit ==
    /\ kScores \in UNION { [1..n -> ScoreValues] : n \in 1..ScoreLen }
    /\ kSample \in BOOLEAN
    /\ kMaxKnots \in 0..MaxKnotsArg
    /\ kKnots = <<>>
    /\ kDone = FALSE

SelectKnots ==
    /\ ~kDone
    /\ UNCHANGED <<clfVars, basisVars, calibVars>>
    /\ kKnots' \in KnotVecs(kScores, kSample, kMaxKnots)
    /\ kDone' = TRUE
    /\ UNCHANGED <<kScores, kSample, kMaxKnots>>

(***************************************************************************)
(* _natural_cubic_spline_basis_expansion (lines 14-35)                     *)
(* Matrix entries are exact fractions [n, d] with d > 0.                   *)
(***************************************************************************)
BasisKnots == 4
MaxKnotVal == 4
BasisPts == 2

Frac(n, d) == [n |-> n, d |-> d]
FracSub(a, b) == Frac(a.n * b.d - b.n * a.d, a.d * b.d)

\* np.maximum(x - knot, 0) ** 3
PosCube(x, knot) == IF x - knot > 0 THEN (x - knot) * (x - knot) * (x - knot) ELSE 0

\* variant: the term of the last knot is left out of the numerator
FuncDNoTail(knots, k, x) ==
    Frac(PosCube(x, knots[k]), knots[Len(knots)] - knots[k])

\* func_d of make_func_d(k), lines 22-25; knots[k-1] is the k-th knot
FuncD(knots, k, x) ==
    Frac(PosCube(x, knots[k]) - PosCube(x, knots[Len(knots)]),
         knots[Len(knots)] - knots[k])

\* func_H of make_func_H(k), lines 27-30
FuncH(knots, k, x) == FracSub(FuncD(knots, k, x), FuncD(knots, Len(knots) - 1, x))

\* lines 17-35: outmat, rows and columns 1-indexed (column j is outmat[:, j-1])
BasisExpansion(xpts, knots) ==
    [r \in 1..Len(xpts) |->
        [j \in 1..Len(knots) |->
            IF j = 1 THEN Frac(1, 1)
            ELSE IF j = 2 THEN Frac(xpts[r], 1)
            ELSE FuncH(knots, j - 2, xpts[r])]]

\* strictly increasing knot vectors of length k
KnotSeqs(k) ==
    { kn \in [1..k -> 0..MaxKnotVal] : \A a \in 1..(k - 1) : kn[a] < kn[a + 1] }

BasisIdle ==
    /\ bKnots = <<>>
    /\ bX = <<>>
    /\ bOut = <<>>
    /\ bDone = "no"

BasisInit ==
    /\ bKnots \in UNION { KnotSeqs(k) : k \in 1..BasisKnots }
    /\ bX \in UNION { [1..n -> (0 - 1)..(MaxKnotVal + 1)] : n \in 1..BasisPts }
    /\ bOut = <<>>
    /\ bDone = "no"

\* one call of the basis builder; a single knot has no column 1 (line 19)
BuildBasis ==
    /\ bDone = "no"
    /\ UNCHANGED <<clfVars, knotVars, calibVars>>
    /\ IF Len(bKnots) < 2
       THEN bOut' = <<>> /\ bDone' = "IndexError"
       ELSE bOut' = BasisExpansion(bX, bKnots) /\ bDone' = "ok"
    /\ UNCHANGED <<bKnots, bX>>

(***************************************************************************)
(* calibrate_scores (lines 80-93); probabilities in units of 1/EpsScale    *)
(***************************************************************************)
EpsScale == 4
CalibLen == 2

\* line 90: np.where(outvec < eps, eps, outvec)
ClipLow(v, eps) == IF v < eps THEN eps ELSE v

\* variant: the upper clip is at 1 instead of 1 - eps
ClipHighAtOne(v, eps) == IF v > EpsScale THEN EpsScale ELSE v

\* line 91: np.where(outvec > 1 - eps, 1 - eps, outvec)
ClipHigh(v, eps) == IF v > EpsScale - eps THEN EpsScale - eps ELSE v

\* lines 85-92, given the regression's output for the new scores
CalibrateScores(meth, force_prob, eps, outvec) ==
    [i \in DOMAIN outvec |->
        IF meth = "ridge" /\ force_prob
        THEN ClipHigh(ClipLow(outvec[i], eps), eps)
        ELSE outvec[i]]

CalibIdle ==
    /\ cMethod = "ridge"
    /\ cForce = TRUE
    /\ cEps = 0
    /\ cRaw = <<>>
    /\ cOut = <<>>
    /\ cDone = "no"

\* the logistic regression's predict_proba stays in [0, 1]; ridge's predict does not
CalibInit ==
    /\ cMethod \in Methods
    /\ cForce \in BOOLEAN
    /\ cEps \in 0..EpsScale
    /\ cRaw \in UNION { [1..n -> (0 - 2)..(EpsScale + 2)] : n \in 1..CalibLen }
    /\ cMethod = "logistic" => \A i \in DOMAIN cRaw : cRaw[i] \in 0..EpsScale
    /\ cOut = <<>>
    /\ cDone = "no"

\* one call of the calibration function; outvec is unbound for other methods
ApplyCalibration ==
    /\ cDone = "no"
    /\ UNCHANGED <<clfVars, knotVars, basisVars>>
    /\ IF cMethod \in {"logistic", "ridge"}
       THEN cOut' = CalibrateScores(cMethod, cForce, cEps, cRaw) /\ cDone' = "ok"
       ELSE cOut' = <<>> /\ cDone' = "UnboundLocalError"
    /\ UNCHANGED <<cMethod, cForce, cEps, cRaw>>

\* the classifier as constructed with a complete base estimator, left alone
ClfParked == ClfInit /\ caps = RequiredCaps /\ method = "logistic" /\ cv = Prefit

Init == ClfInit /\ KnotIdle /\ BasisIdle /\ CalibIdle
Spec == Init /\ [][Next]_vars

InitKnots == ClfParked /\ KnotInit /\ BasisIdle /\ CalibIdle
NextKnots == SelectKnots
SpecKnots == InitKnots /\ [][NextKnots]_vars

InitBasis == ClfParked /\ KnotIdle /\ BasisInit /\ CalibIdle
NextBasis == BuildBasis
SpecBasis == InitBasis /\ [][NextBasis]_vars

InitCalib == ClfParked /\ KnotIdle /\ BasisIdle /\ CalibInit
NextCalib == ApplyCalibration
SpecCalib == InitCalib /\ [][NextCalib]_vars

(***************************************************************************)
(* Properties                                                              *)
(***************************************************************************)

\* C1: when the fold loop of fit ends, every sample index of the out-of-fold
\* scores has been written exactly once, by a trained clone that is neither
\* the base estimator nor the stored classifier and whose training indices
\* exclude that sample.
OutOfFoldLeakageFree ==
    pc = "full" =>
        \A i \in Samples :
            /\ y_pred[i].written = 1
            /\ y_pred[i].by.id \notin {None, base_estimator, uncalibrated_classifier}
            /\ y_pred[i].by.fitted
            /\ i \notin y_pred[i].by.train
            /\ y_pred[i].by.train # Samples

\* C1 witness: a three-fold loop has ended with every score written
OutOfFoldWitness ==
    /\ pc = "full"
    /\ Len(skf) = 3
    /\ \A i \in Samples : y_pred[i].written = 1 /\ y_pred[i].by.train # {}

Unfit == fitReturns = 0

\* the base estimator offers fit, predict_proba and cloning
CompleteBase == caps = RequiredCaps

\* C2: predict or predict_proba on an instance no fit call has completed on
\* fails with NotFittedError (stated for a complete base estimator).
UnfitPredictRaisesNotFitted ==
    (CompleteBase /\ Unfit /\ lastOp \in {"predict", "predict_proba"})
        => lastResult = "NotFittedError"

\* C3: with a base estimator lacking fit, predict_proba or clonability, fit
\* fails with ContractViolationError before any fold is trained, in both modes.
MissingCapabilityFailsAtFit ==
    (caps # RequiredCaps /\ pc = "idle" /\ lastOp = "fit")
        => (lastResult = "ContractViolationError" /\ foldsTrained = 0)

\* C4 as stated: predict returns the positive class iff p >= 0.5, ties included.
PredictPositiveIffAtLeastHalf ==
    (lastOp = "predict" /\ lastResult = "ok")
        => (lastLabel = "positive" <=> 2 * lastP >= Scale)

\* C4 amended: predict returns the positive class iff p > 0.5; at p = 0.5 the
\* two columns are equal and the negative class is returned.
PredictPositiveIffAboveHalf ==
    (lastOp = "predict" /\ lastResult = "ok")
        => /\ lastLabel = "positive" <=> 2 * lastP > Scale
           /\ lastLabel = "negative" <=> 2 * lastP <= Scale

\* C4 witness: a fitted classifier predicted a sample whose p is exactly 0.5
PredictTieWitness ==
    /\ lastOp = "predict"
    /\ lastResult = "ok"
    /\ 2 * lastP = Scale
    /\ lastLabel = "negative"

ScoreSet == { kScores[i] : i \in DOMAIN kScores }

\* C5: with knots = 'sample', max_knots >= 2 and more distinct scores than
\* max_knots, the final knot vector has exactly max_knots values, is strictly
\* increasing, starts at the minimum score, ends at the maximum score, and
\* holds observed scores only.
KnotReduction ==
    (kDone /\ kSample /\ kMaxKnots >= 2 /\ Cardinality(ScoreSet) > kMaxKnots)
        => /\ Len(kKnots) = kMaxKnots
           /\ \A a \in 1..(Len(kKnots) - 1) : kKnots[a] < kKnots[a + 1]
           /\ kKnots[1] = Min(ScoreSet)
           /\ kKnots[Len(kKnots)] = Max(ScoreSet)
           /\ \A a \in 1..Len(kKnots) : kKnots[a] \in ScoreSet

\* C5 witness: four distinct scores reduced to three knots, the shuffle having
\* kept the larger of the two interior values
KnotReductionWitness ==
    /\ kDone
    /\ kSample
    /\ kMaxKnots = 3
    /\ Cardinality(ScoreSet) = 4
    /\ Len(kKnots) = 3
    /\ kKnots[2] = Max(ScoreSet \ {Max(ScoreSet)})

TruncCube(x, knot) == IF x > knot THEN (x - knot) * (x - knot) * (x - knot) ELSE 0

\* entry e equals d_i(x) - d_{K-1}(x), with
\* d_k(x) = (max(x - knot_k, 0)^3 - max(x - knot_K, 0)^3) / (knot_K - knot_k)
IsSplineTerm(e, knots, i, x) ==
    LET K == Len(knots)
        Di == knots[K] - knots[i]
        Dm == knots[K] - knots[K - 1]
        Ai == TruncCube(x, knots[i]) - TruncCube(x, knots[K])
        Am == TruncCube(x, knots[K - 1]) - TruncCube(x, knots[K])
    IN e.n * Di * Dm = (Ai * Dm - Am * Di) * e.d

\* C6 as stated: column 0 is all ones, column 1 the scores, and the remaining
\* columns are d_i - d_{K-1} for the interior knots i = 2..K-1, in order.
BasisColumnsFromInteriorKnots ==
    bDone = "ok" =>
        \A r \in 1..Len(bX) :
            /\ Len(bOut[r]) = Len(bKnots)
            /\ \A j \in 1..Len(bKnots) :
                 IF j = 1 THEN bOut[r][j].n = bOut[r][j].d
                 ELSE IF j = 2 THEN bOut[r][j].n = bX[r] * bOut[r][j].d
                 ELSE IsSplineTerm(bOut[r][j], bKnots, j - 1, bX[r])

\* C6 amended: column 0 is all ones, column 1 the scores, and the remaining
\* columns are d_i - d_{K-1} for the knots i = 1..K-2, in order.
BasisColumnsFromLeadingKnots ==
    bDone = "ok" =>
        /\ Len(bOut) = Len(bX)
        /\ \A r \in 1..Len(bX) :
            /\ Len(bOut[r]) = Len(bKnots)
            /\ \A j \in 1..Len(bKnots) :
                 /\ bOut[r][j].d > 0
                 /\ IF j = 1 THEN bOut[r][j].n = bOut[r][j].d
                    ELSE IF j = 2 THEN bOut[r][j].n = bX[r] * bOut[r][j].d
                    ELSE IsSplineTerm(bOut[r][j], bKnots, j - 2, bX[r])

\* C6 witness: four knots, a score beyond the last knot, a non-zero spline term
BasisWitness ==
    /\ bDone = "ok"
    /\ Len(bKnots) = 4
    /\ bX[1] > bKnots[4]
    /\ bOut[1][3].n # 0
    /\ bOut[1][4].n # 0

\* C7: for method 'ridge' with force_prob and 0 <= eps <= 1/2, every value
\* returned lies in [eps, 1 - eps]: predictions below eps become eps, those
\* above 1 - eps become 1 - eps, and those inside are returned unchanged.
RidgeOutputClipped ==
    (cDone = "ok" /\ cMethod = "ridge" /\ cForce /\ 2 * cEps <= EpsScale)
        => /\ Len(cOut) = Len(cRaw)
           /\ \A i \in 1..Len(cRaw) :
                /\ cEps <= cOut[i] /\ cOut[i] <= EpsScale - cEps
                /\ cRaw[i] < cEps => cOut[i] = cEps
                /\ cRaw[i] > EpsScale - cEps => cOut[i] = EpsScale - cEps
                /\ (cEps <= cRaw[i] /\ cRaw[i] <= EpsScale - cEps) => cOut[i] = cRaw[i]

\* C7 witness: eps > 0, one prediction below 0 and one inside (1 - eps, 1]
RidgeClipWitness ==
    /\ cDone = "ok"
    /\ cMethod = "ridge"
    /\ cForce
    /\ cEps = 1
    /\ Len(cRaw) = 2
    /\ cRaw[1] < 0
    /\ cRaw[2] = EpsScale
    /\ cOut = <<1, EpsScale - 1>>

\* C8 as stated: after a fit has completed, in either mode, the classifier
\* used at prediction time is not the object the caller supplied (stated for
\* a complete base estimator).
ClassifierNotShared ==
    (CompleteBase /\ fitReturns > 0) => uncalibrated_classifier # base_estimator

\* C8 amended: after a fit has completed in k-fold mode the classifier used at
\* prediction time is a clone distinct from the supplied base estimator and
\* untouched by the caller's later training of that estimator; in prefit mode
\* it is the supplied base estimator itself.
ClassifierOwnedUnlessPrefit ==
    fitReturns > 0 =>
        IF cv = Prefit
        THEN uncalibrated_classifier = base_estimator
        ELSE /\ uncalibrated_classifier \notin {None, base_estimator}
             /\ uncalibrated_classifier \in DOMAIN est
             /\ est[uncalibrated_classifier].retrains = 0

\* C8 witness: fitted in k-fold mode, the caller has trained its estimator
\* again, and predict_proba has answered since
OwnedClassifierWitness ==
    /\ CompleteBase
    /\ fitReturns > 0
    /\ cv # Prefit
    /\ est[base_estimator].retrains > 0
    /\ lastOp = "predict_proba"
    /\ lastResult = "ok"

\* C9: a fit call that returns normally, for any mode and any method, leaves
\* the full-data classifier set and trained and a calibration function
\* created during that very call (stated for a complete base estimator).
FitReturnLeavesFitted ==
    (CompleteBase /\ pc = "idle" /\ lastOp = "fit" /\ lastResult = "ok")
        => /\ uncalibrated_classifier # None
           /\ est[uncalibrated_classifier].fitted
           /\ calib_func # NoFunc
           /\ calib_func.call = fitCalls

\* C10: a fit call that fails while training or in the calibration fitter
\* leaves the pair (classifier, calibration function) as it was on entry
\* (stated for a complete base estimator; ValueError is what a failing
\* training or fitter raises here).
FailedFitKeepsState ==
    (CompleteBase /\ pc = "idle" /\ lastOp = "fit" /\ lastResult = "ValueError")
        => <<uncalibrated_classifier, calib_func>> = saved

====
